---- MODULE Spec2Model ----
(***************************************************************************)
(* Bias-variance experiments on the Franke data.                           *)
(*                                                                         *)
(*   SpecDM    FrankeData.generate_design_matrix (src/src/data/franke.py)  *)
(*   SpecSweep the four sweep functions and write_to_file                  *)
(*             (src/src/analysis/bias_variance.py)                         *)
(*   SpecBoot  bootstrap_bias_variance, the estimator the sweeps call      *)
(*                                                                         *)
(* Real numbers are exact: inputs are small naturals, and every mean is a  *)
(* fraction <<numerator, denominator>> compared by cross-multiplication.   *)
(***************************************************************************)
EXTENDS Integers, Sequences, FiniteSets, TLC

VARIABLES
    \* ---- generate_design_matrix ----
    degree,     \* self.degree
    x, y,       \* the two input arrays, 1-indexed sequences
    N, p,       \* locals N and p
    X,          \* the matrix: X[n][c], n in 1..N, c in 0..p-1
    i, j, q,    \* loop variables and the triangular offset
    pc,         \* "enter", "outer", "inner", "return", "IndexError"
    writes,     \* history: one record per executed column assignment
    \* ---- the sweep functions and write_to_file ----
    sweep,      \* which sweep function runs
    spc,        \* "begin", "loop", "header", "rows", "done", "raised"
    k,          \* number of hyperparameter values the for loop has consumed
    data,       \* the local `data`: a reference into objs, 0 before assignment
    objs,       \* the objects constructed so far, in order of construction
    mses_train, mses_test, biases, variances,
    fs,         \* output/data: file name -> [exists, text]
    fs0,        \* history: fs when the sweep function was entered
    row,        \* write_to_file's loop index i
    calls,      \* history: one record per returned bootstrap_bias_variance call
    \* ---- bootstrap_bias_variance ----
    B,          \* the bootstrap count
    y_train,    \* training targets of the dataset
    y_test,     \* test targets of the dataset, fixed for the whole run
    P,          \* prediction matrix: P[t][c], t a test point, c in 1..B
    it,         \* bootstrap iterations completed
    train_sse,  \* sum over iterations of the squared training errors
    model,      \* the regressor as last fitted: resample targets, predictions
    result,     \* the four returned scalars, as fractions
    bpc         \* "enter", "iterate", "done", "raised"

dmVars == <<degree, x, y, N, p, X, i, j, q, pc, writes>>

swVars == <<sweep, spc, k, data, objs, mses_train, mses_test, biases,
            variances, fs, fs0, row, calls>>

bvVars == <<B, y_train, y_test, P, it, train_sse, model, result, bpc>>

vars == <<dmVars, swVars, bvVars>>

-----------------------------------------------------------------------------
(* Bounds *)

\* Largest polynomial degree and largest input length of a design matrix.
MaxDegree == 3
MaxN == 2
\* Number of values of a hyperparameter list a sweep runs through.
MaxSweep == 2
\* Largest bootstrap count.
MaxB == 2

\* Coordinates the inputs are drawn from. 0 exercises 0 ** 0; 2 and 3 make
\* x^a * y^b determine (a, b).
Coords == {0, 2, 3}

-----------------------------------------------------------------------------
(* Arithmetic helpers *)

\* int(a / b) for b > 0: true division, then truncation toward zero.
PyIntTrueDiv(a, b) == IF a >= 0 THEN a \div b ELSE -((-a) \div b)

\* base ** e for an integer e >= 0; numpy gives 0 ** 0 = 1.
RECURSIVE Pow(_, _)
Pow(base, e) == IF e = 0 THEN 1 ELSE base * Pow(base, e - 1)

-----------------------------------------------------------------------------
(* The parts of the state a specification does not use stay as set here. *)

DMIdle ==
    /\ degree = 0
    /\ x = << >>
    /\ y = << >>
    /\ N = 0
    /\ p = 0
    /\ X = << >>
    /\ i = 0
    /\ j = 0
    /\ q = 0
    /\ pc = "idle"
    /\ writes = << >>

SweepIdle ==
    /\ sweep = "none"
    /\ spc = "idle"
    /\ k = 0
    /\ data = 0
    /\ objs = << >>
    /\ mses_train = << >>
    /\ mses_test = << >>
    /\ biases = << >>
    /\ variances = << >>
    /\ fs = << >>
    /\ fs0 = << >>
    /\ row = 0
    /\ calls = << >>

BootIdle ==
    /\ B = 0
    /\ y_train = << >>
    /\ y_test = << >>
    /\ P = << >>
    /\ it = 0
    /\ train_sse = 0
    /\ model = << >>
    /\ result = << >>
    /\ bpc = "idle"

-----------------------------------------------------------------------------
(* FrankeData.generate_design_matrix *)

\* Faulty variant: the division by two is forgotten.
get_number_of_parameters_NoHalving(d) == (d + 1) * (d + 2)
get_number_of_parameters(d) == PyIntTrueDiv((d + 1) * (d + 2), 2)

\* Faulty variant: range(self.degree + 1).
OuterRange_Inclusive(d) == 0 .. d
\* range(self.degree): the loop runs while i is in it.
OuterRange(d) == 0 .. (d - 1)

\* range(i + 2)
InnerRange(ii) == 0 .. (ii + 1)

\* Faulty variant: the offset of the level below, int(i * (i + 1) / 2).
TriangularOffset_OneLevelLow(ii) == PyIntTrueDiv(ii * (ii + 1), 2)
TriangularOffset(ii) == PyIntTrueDiv((ii + 1) * (ii + 2), 2)

ExponentOfX(ii, jj) == ii - jj + 1

\* Faulty variant: y ** i.
ExponentOfY_Level(ii, jj) == ii
ExponentOfY(ii, jj) == jj

\* x ** (i - j + 1) * y ** j, elementwise
Monomial(xv, yv, ii, jj) ==
    Pow(xv, ExponentOfX(ii, jj)) * Pow(yv, ExponentOfY(ii, jj))

Ones(rows, cols) == [n \in 1 .. rows |-> [c \in 0 .. (cols - 1) |-> 1]]

InitDM ==
    /\ degree \in 0 .. MaxDegree
    /\ \E len \in 0 .. MaxN :
          /\ x \in [1 .. len -> Coords]
          /\ y \in [1 .. len -> Coords]
    /\ N = 0
    /\ p = 0
    /\ X = << >>
    /\ i = 0
    /\ j = 0
    /\ q = 0
    /\ pc = "enter"
    /\ writes = << >>
    /\ SweepIdle
    /\ BootIdle

\* N = len(x); p = self.get_number_of_parameters(); X = np.ones((N, p))
DMAllocate ==
    /\ pc = "enter"
    /\ N' = Len(x)
    /\ p' = get_number_of_parameters(degree)
    /\ X' = Ones(Len(x), get_number_of_parameters(degree))
    /\ i' = 0
    /\ pc' = "outer"
    /\ UNCHANGED <<degree, x, y, j, q, writes>>
    /\ UNCHANGED <<swVars, bvVars>>

\* for i in range(self.degree): q = int((i + 1) * (i + 2) / 2)
DMOuter ==
    /\ pc = "outer"
    /\ IF i \in OuterRange(degree)
          THEN /\ q' = TriangularOffset(i)
               /\ j' = 0
               /\ pc' = "inner"
          ELSE /\ pc' = "return"
               /\ UNCHANGED <<q, j>>
    /\ UNCHANGED <<degree, x, y, N, p, X, i, writes>>
    /\ UNCHANGED <<swVars, bvVars>>

\* for j in range(i + 2): X[:, q + j] = x ** (i - j + 1) * y ** j
\* A column index outside 0..p-1 raises IndexError.
DMInner ==
    /\ pc = "inner"
    /\ IF j \in InnerRange(i)
          THEN /\ writes' = Append(writes,
                      [level |-> i, split |-> j, col |-> q + j,
                       ex |-> ExponentOfX(i, j), ey |-> ExponentOfY(i, j)])
               /\ IF q + j \in 0 .. (p - 1)
                     THEN /\ X' = [n \in 1 .. N |->
                                    [X[n] EXCEPT ![q + j] =
                                        Monomial(x[n], y[n], i, j)]]
                          /\ j' = j + 1
                          /\ pc' = "inner"
                     ELSE /\ pc' = "IndexError"
                          /\ UNCHANGED <<X, j>>
               /\ UNCHANGED i
          ELSE /\ i' = i + 1
               /\ pc' = "outer"
               /\ UNCHANGED <<X, j, writes>>
    /\ UNCHANGED <<degree, x, y, N, p, q>>
    /\ UNCHANGED <<swVars, bvVars>>

NextDM == DMAllocate \/ DMOuter \/ DMInner

SpecDM == InitDM /\ [][NextDM]_vars

-----------------------------------------------------------------------------
(* The sweep functions: bias_variance_analysis_ols, _mlp_layer_size,       *)
(* _mlp_number_of_layers, _ensamble, and write_to_file                     *)

Sweeps == {"ols", "mlp_layer_size", "mlp_number_of_layers", "ensamble"}

\* list(range(start, stop, step)) for step > 0
RECURSIVE PyRange(_, _, _)
PyRange(start, stop, step) ==
    IF start >= stop THEN << >>
    ELSE <<start>> \o PyRange(start + step, stop, step)

degrees == PyRange(1, 16, 1)
layer_sizes == PyRange(10, 100, 10)
number_of_layers_list == PyRange(1, 6, 1)
depths == PyRange(1, 11, 1)

Prefix(seq, n) == SubSeq(seq, 1, IF Len(seq) < n THEN Len(seq) ELSE n)

\* The hyperparameter list of a sweep, cut to its first MaxSweep values.
Axis(s) ==
    Prefix(CASE s = "ols" -> degrees
             [] s = "mlp_layer_size" -> layer_sizes
             [] s = "mlp_number_of_layers" -> number_of_layers_list
             [] s = "ensamble" -> depths,
           MaxSweep)

FileName(s) ==
    CASE s = "ols" -> "bias_variance_ols.csv"
      [] s = "mlp_layer_size" -> "bias_variance_mlp_layer_size.csv"
      [] s = "mlp_number_of_layers" -> "bias_variance_mlp_number_of_layers.csv"
      [] s = "ensamble" -> "bias_variance_ensamble.csv"

FileNames == {FileName(s) : s \in Sweeps}

Label(s) ==
    CASE s = "ols" -> "degree"
      [] s = "mlp_layer_size" -> "layer size"
      [] s = "mlp_number_of_layers" -> "number of layers"
      [] s = "ensamble" -> "depth"

\* FrankeData(config.DATA_SIZE, degree=d, test_size=...): the object holds the
\* degree and a design matrix of get_number_of_parameters() columns.
FrankeData(d) ==
    [class |-> "FrankeData", degree |-> d,
     columns |-> get_number_of_parameters(d)]

\* degree=1 is the constructor's default, used by the MLP and ensemble sweeps.
DefaultDegree == 1

\* The regressor a sweep point constructs for hyperparameter value v.
\* params: hidden_layer_sizes as the generator yields them, or max_depth.
Regressor(s, v) ==
    CASE s = "ols" ->
            [class |-> "OrdinaryLeastSquares", params |-> << >>,
             fitted |-> FALSE]
      [] s = "mlp_layer_size" ->
            [class |-> "MLPRegressor", params |-> [n \in 1 .. 3 |-> v],
             fitted |-> FALSE]
      [] s = "mlp_number_of_layers" ->
            [class |-> "MLPRegressor", params |-> [n \in 1 .. v |-> 50],
             fitted |-> FALSE]
      [] s = "ensamble" ->
            [class |-> "GradientBoostingRegressor", params |-> <<v>>,
             fitted |-> FALSE]

\* The dataset argument of the estimator call: OLS constructs one per
\* degree inside the loop, the other sweeps pass the local `data`.
DataHandedOver(heap, s, v, local) ==
    IF s = "ols"
        THEN [heap |-> Append(heap, FrankeData(v)), ref |-> Len(heap) + 1]
        ELSE [heap |-> heap, ref |-> local]

\* Faulty variant: one regressor object, constructed by the first sweep
\* point, is handed to every call.
RegressorHandedOver_Hoisted(heap, s, v) ==
    IF \E r \in 1 .. Len(heap) : "fitted" \in DOMAIN heap[r]
        THEN [heap |-> heap,
              ref |-> CHOOSE r \in 1 .. Len(heap) :
                          "fitted" \in DOMAIN heap[r]]
        ELSE [heap |-> Append(heap, Regressor(s, v)), ref |-> Len(heap) + 1]
\* The regressor argument of the estimator call: constructed in the call
\* expression, once per loop iteration.
RegressorHandedOver(heap, s, v) ==
    [heap |-> Append(heap, Regressor(s, v)), ref |-> Len(heap) + 1]

\* Values a metric takes in the model.
MetricValues == {0, 1}

\* bootstrap_bias_variance returns (bias^2, variance, train MSE, test MSE).
Outcomes == MetricValues \X MetricValues \X MetricValues \X MetricValues

\* What a returned bootstrap_bias_variance call leaves behind: the regressor
\* it was handed has been fitted, the dataset is only read.
EstimatorEffect(heap, rref, dref) == [heap EXCEPT ![rref].fitted = TRUE]

\* Faulty variant: mse_train, mse_test, bias, variance = ...
Unpack_TrainTestFirst(ret) ==
    [mse_train |-> ret[1], mse_test |-> ret[2],
     bias |-> ret[3], variance |-> ret[4]]
\* bias, variance, mse_train, mse_test = bootstrap_bias_variance(...)
Unpack(ret) ==
    [bias |-> ret[1], variance |-> ret[2],
     mse_train |-> ret[3], mse_test |-> ret[4]]

\* str() of an int, and of a float whose value is integral
IntText(n) == ToString(n)
FloatText(m) == ToString(m) \o ".0"

\* f"{x_label},mse_train,mse_test,bias,variance\n"
HeaderText(x_label) == x_label \o ",mse_train,mse_test,bias,variance\n"

\* Faulty variant: f"{x[i]},{biases[i]},{variances[i]},{mses_train[i]},..."
RowText_BiasFirst(xv, tr, te, b, v) ==
    IntText(xv) \o "," \o FloatText(b) \o "," \o FloatText(v) \o ","
        \o FloatText(tr) \o "," \o FloatText(te) \o "\n"
\* f"{x[i]},{mses_train[i]},{mses_test[i]},{biases[i]},{variances[i]}\n"
RowText(xv, tr, te, b, v) ==
    IntText(xv) \o "," \o FloatText(tr) \o "," \o FloatText(te) \o ","
        \o FloatText(b) \o "," \o FloatText(v) \o "\n"

NoFile == [exists |-> FALSE, text |-> ""]
StaleFile == [exists |-> TRUE, text |-> "stale\n"]

InitSweep ==
    /\ sweep \in Sweeps
    /\ spc = "begin"
    /\ k = 0
    /\ data = 0
    /\ objs = << >>
    /\ mses_train = << >>
    /\ mses_test = << >>
    /\ biases = << >>
    /\ variances = << >>
    /\ fs \in {[f \in FileNames |-> NoFile], [f \in FileNames |-> StaleFile]}
    /\ fs0 = fs
    /\ row = 0
    /\ calls = << >>
    /\ DMIdle
    /\ BootIdle

\* Faulty variant: the result file is opened for writing on entry.
SweepBegin_OpensFileFirst ==
    /\ spc = "begin"
    /\ mses_train' = << >>
    /\ mses_test' = << >>
    /\ biases' = << >>
    /\ variances' = << >>
    /\ IF sweep = "ols"
          THEN UNCHANGED <<objs, data>>
          ELSE /\ objs' = Append(objs, FrankeData(DefaultDegree))
               /\ data' = Len(objs) + 1
    /\ fs' = [fs EXCEPT ![FileName(sweep)] = [exists |-> TRUE, text |-> ""]]
    /\ spc' = "loop"
    /\ UNCHANGED <<sweep, k, fs0, row, calls>>
    /\ UNCHANGED <<dmVars, bvVars>>
\* mses_train, mses_test, biases, variances = [], [], [], []
\* and, outside the OLS sweep, data = FrankeData(config.DATA_SIZE, ...).
SweepBegin ==
    /\ spc = "begin"
    /\ mses_train' = << >>
    /\ mses_test' = << >>
    /\ biases' = << >>
    /\ variances' = << >>
    /\ IF sweep = "ols"
          THEN UNCHANGED <<objs, data>>
          ELSE /\ objs' = Append(objs, FrankeData(DefaultDegree))
               /\ data' = Len(objs) + 1
    /\ spc' = "loop"
    /\ UNCHANGED <<sweep, k, fs, fs0, row, calls>>
    /\ UNCHANGED <<dmVars, bvVars>>

\* One loop iteration: the estimator call returns, its result is unpacked
\* and appended to the four lists.
SweepPoint ==
    /\ spc = "loop"
    /\ k < Len(Axis(sweep))
    /\ \E ret \in Outcomes :
          LET v == Axis(sweep)[k + 1]
              d == DataHandedOver(objs, sweep, v, data)
              r == RegressorHandedOver(d.heap, sweep, v)
              u == Unpack(ret)
          IN  /\ calls' = Append(calls,
                     [value |-> v,
                      data |-> d.ref, dataSeen |-> r.heap[d.ref],
                      regressor |-> r.ref, regressorSeen |-> r.heap[r.ref],
                      returned |-> ret])
              /\ objs' = EstimatorEffect(r.heap, r.ref, d.ref)
              /\ data' = IF sweep = "ols" THEN d.ref ELSE data
              /\ mses_train' = Append(mses_train, u.mse_train)
              /\ mses_test' = Append(mses_test, u.mse_test)
              /\ biases' = Append(biases, u.bias)
              /\ variances' = Append(variances, u.variance)
    /\ k' = k + 1
    /\ UNCHANGED <<sweep, spc, fs, fs0, row>>
    /\ UNCHANGED <<dmVars, bvVars>>

\* Dataset construction or the estimator call raises: nothing catches it,
\* the sweep function is left.
SweepRaise ==
    /\ \/ spc = "begin" /\ sweep # "ols"
       \/ spc = "loop" /\ k < Len(Axis(sweep))
    /\ spc' = "raised"
    /\ UNCHANGED <<sweep, k, data, objs, mses_train, mses_test, biases,
                   variances, fs, fs0, row, calls>>
    /\ UNCHANGED <<dmVars, bvVars>>

\* The loop is exhausted; write_to_file: open(f"output/data/{filename}", "w")
WriteOpen ==
    /\ spc = "loop"
    /\ k = Len(Axis(sweep))
    /\ fs' = [fs EXCEPT ![FileName(sweep)] = [exists |-> TRUE, text |-> ""]]
    /\ spc' = "header"
    /\ UNCHANGED <<sweep, k, data, objs, mses_train, mses_test, biases,
                   variances, fs0, row, calls>>
    /\ UNCHANGED <<dmVars, bvVars>>

\* open() raises (output/data is missing or not writable)
WriteOpenRaises ==
    /\ spc = "loop"
    /\ k = Len(Axis(sweep))
    /\ spc' = "raised"
    /\ UNCHANGED <<sweep, k, data, objs, mses_train, mses_test, biases,
                   variances, fs, fs0, row, calls>>
    /\ UNCHANGED <<dmVars, bvVars>>

\* f.write(f"{x_label},mse_train,mse_test,bias,variance\n")
WriteHeader ==
    /\ spc = "header"
    /\ fs' = [fs EXCEPT ![FileName(sweep)].text = @ \o HeaderText(Label(sweep))]
    /\ row' = 0
    /\ spc' = "rows"
    /\ UNCHANGED <<sweep, k, data, objs, mses_train, mses_test, biases,
                   variances, fs0, calls>>
    /\ UNCHANGED <<dmVars, bvVars>>

\* for i in range(len(x)): f.write(...); leaving the with block closes f
WriteRow ==
    /\ spc = "rows"
    /\ IF row < Len(Axis(sweep))
          THEN /\ fs' = [fs EXCEPT ![FileName(sweep)].text =
                            @ \o RowText(Axis(sweep)[row + 1],
                                         mses_train[row + 1],
                                         mses_test[row + 1],
                                         biases[row + 1],
                                         variances[row + 1])]
               /\ row' = row + 1
               /\ UNCHANGED spc
          ELSE /\ spc' = "done"
               /\ UNCHANGED <<fs, row>>
    /\ UNCHANGED <<sweep, k, data, objs, mses_train, mses_test, biases,
                   variances, fs0, calls>>
    /\ UNCHANGED <<dmVars, bvVars>>

NextSweep ==
    \/ SweepBegin
    \/ SweepPoint
    \/ SweepRaise
    \/ WriteOpen
    \/ WriteOpenRaises
    \/ WriteHeader
    \/ WriteRow

SpecSweep == InitSweep /\ [][NextSweep]_vars

-----------------------------------------------------------------------------
(* bootstrap_bias_variance(regressor, data, B)                             *)

\* Fractions <<numerator, denominator>>, denominator > 0, not reduced;
\* compared by cross-multiplication.
Frac(n, d) == <<n, d>>
FracAdd(a, c) == <<a[1] * c[2] + c[1] * a[2], a[2] * c[2]>>
FracEq(a, c) == a[1] * c[2] = c[1] * a[2]
FracLe(a, c) == a[1] * c[2] <= c[1] * a[2]

RECURSIVE SumInts(_, _)
SumInts(seq, n) == IF n = 0 THEN 0 ELSE seq[n] + SumInts(seq, n - 1)

Sum(seq) == SumInts(seq, Len(seq))

Sq(n) == n * n

\* Targets and predictions on the test set, the sizes of the test set,
\* predictions on the training set, and the training targets.
TestValues == {0, 1, 2}
TestSizes == {1, 2}
TrainValues == {0, 1}
TrainSets == {<<0, 1>>}

\* Test MSE: mean over all matrix entries of (y_test[t] - P[t, c])^2
TestMSE(yt, M) ==
    Frac(Sum([t \in DOMAIN M |->
             Sum([c \in DOMAIN M[t] |-> Sq(yt[t] - M[t][c])])]),
         Len(M) * Len(M[1]))

\* Bias^2: mean over test points of (y_test[t] - mean_b(P[t, :]))^2.
\* With S the sum of the row and n its length, the mean is S / n and
\* (y - S / n)^2 = (n * y - S)^2 / n^2.
BiasSquared(yt, M) ==
    Frac(Sum([t \in DOMAIN M |-> Sq(Len(M[t]) * yt[t] - Sum(M[t]))]),
         Len(M) * Sq(Len(M[1])))

\* The variance of one row r of P across the bootstrap columns: the mean of
\* (r[c] - S / n)^2 = (n * r[c] - S)^2 / n^2 over the n columns.
\* Faulty variant: the sample variance (ddof = 1).
PointVariance_Sample(r) ==
    IF Len(r) = 1 THEN Frac(0, 1)
    ELSE Frac(Sum([c \in DOMAIN r |-> Sq(Len(r) * r[c] - Sum(r))]),
              Sq(Len(r)) * (Len(r) - 1))
\* Population variance (np.var's default).
PointVariance(r) ==
    Frac(Sum([c \in DOMAIN r |-> Sq(Len(r) * r[c] - Sum(r))]),
         Sq(Len(r)) * Len(r))

\* np.mean of a non-empty sequence of fractions of one denominator
MeanOfFracs(seq) ==
    Frac(Sum([n \in DOMAIN seq |-> seq[n][1]]), seq[1][2] * Len(seq))

\* Faulty variant: the variance is taken down the columns (across test
\* points) instead of along the rows.
Variance_AcrossPoints(M) ==
    MeanOfFracs([c \in DOMAIN M[1] |->
        PointVariance([t \in DOMAIN M |-> M[t][c]])])
\* Variance: mean over test points of the variance of P[t, :]
Variance(M) == MeanOfFracs([t \in DOMAIN M |-> PointVariance(M[t])])

\* Train MSE: mean over iterations of the MSE between the iteration's
\* training predictions and its resample's targets.
TrainMSE(sse, ntrain, nboot) == Frac(sse, ntrain * nboot)

SumSq(a, c) == Sum([n \in DOMAIN a |-> Sq(a[n] - c[n])])

InitBoot ==
    /\ B \in 1 .. MaxB
    /\ y_train \in TrainSets
    /\ \E n \in TestSizes : y_test \in [1 .. n -> TestValues]
    /\ P = << >>
    /\ it = 0
    /\ train_sse = 0
    /\ model = << >>
    /\ result = << >>
    /\ bpc = "enter"
    /\ DMIdle
    /\ SweepIdle

\* Allocate P of shape (len(y_test), B).
BootAllocate ==
    /\ bpc = "enter"
    /\ P' = [t \in 1 .. Len(y_test) |-> [c \in 1 .. B |-> 0]]
    /\ it' = 0
    /\ bpc' = "iterate"
    /\ UNCHANGED <<B, y_train, y_test, train_sse, model, result>>
    /\ UNCHANGED <<dmVars, swVars>>

\* One bootstrap iteration: draw a resample of the training partition with
\* replacement, fit, predict on the training and on the test inputs; the
\* regressor is an oracle, it may predict anything.
BootIterate ==
    /\ bpc = "iterate"
    /\ it < B
    /\ \E idx \in [1 .. Len(y_train) -> 1 .. Len(y_train)] :
       \E train_pred \in [1 .. Len(y_train) -> TrainValues] :
       \E test_pred \in [1 .. Len(y_test) -> TestValues] :
          LET y_res == [n \in 1 .. Len(y_train) |-> y_train[idx[n]]]
          IN  /\ model' = [fitted_on |-> y_res, test_pred |-> test_pred]
              /\ train_sse' = train_sse + SumSq(train_pred, y_res)
              /\ P' = [t \in 1 .. Len(y_test) |->
                          [P[t] EXCEPT ![it + 1] = test_pred[t]]]
    /\ it' = it + 1
    /\ UNCHANGED <<B, y_train, y_test, result, bpc>>
    /\ UNCHANGED <<dmVars, swVars>>

\* fit or predict raises: the failure propagates.
BootRaise ==
    /\ bpc = "iterate"
    /\ it < B
    /\ bpc' = "raised"
    /\ UNCHANGED <<B, y_train, y_test, P, it, train_sse, model, result>>
    /\ UNCHANGED <<dmVars, swVars>>

\* All B columns are filled: aggregate and return.
BootReturn ==
    /\ bpc = "iterate"
    /\ it = B
    /\ result' = [bias |-> BiasSquared(y_test, P),
                  variance |-> Variance(P),
                  mse_train |-> TrainMSE(train_sse, Len(y_train), B),
                  mse_test |-> TestMSE(y_test, P)]
    /\ bpc' = "done"
    /\ UNCHANGED <<B, y_train, y_test, P, it, train_sse, model>>
    /\ UNCHANGED <<dmVars, swVars>>

NextBoot == BootAllocate \/ BootIterate \/ BootRaise \/ BootReturn

SpecBoot == InitBoot /\ [][NextBoot]_vars

-----------------------------------------------------------------------------
(* Properties of generate_design_matrix *)

Returned == pc = "return"

Columns == 0 .. (p - 1)

WrittenCols == {writes[w].col : w \in 1 .. Len(writes)}

\* C1: for every degree >= 0 and equal-length x, y of length N the returned
\* matrix has exactly N rows and exactly (degree+1)(degree+2)/2 columns, and
\* every entry of column 0 is 1; the call never ends in an IndexError.
C1_ShapeAndBiasColumn ==
    /\ pc # "IndexError"
    /\ Returned =>
          /\ DOMAIN X = 1 .. Len(x)
          /\ 2 * p = (degree + 1) * (degree + 2)
          /\ \A n \in DOMAIN X :
                /\ 2 * Cardinality(DOMAIN X[n]) = (degree + 1) * (degree + 2)
                /\ DOMAIN X[n] = 0 .. (Cardinality(DOMAIN X[n]) - 1)
                /\ X[n][0] = 1

C1_Witness ==
    /\ Returned
    /\ degree = 2
    /\ Len(x) = 2
    /\ x[1] = 0
    /\ Cardinality(DOMAIN X[1]) = 6

\* C2: with degree = 0 the fill loop performs no column assignment at all, and
\* the returned matrix is (N, 1) with every entry 1.
C2_DegreeZeroIsOnes ==
    degree = 0 =>
        /\ writes = << >>
        /\ pc # "IndexError"
        /\ Returned => X = [n \in 1 .. Len(x) |-> [c \in {0} |-> 1]]

C2_Witness ==
    /\ Returned
    /\ degree = 0
    /\ Len(x) = 2
    /\ x[1] = 3
    /\ X[2][0] = 1

\* The exponents column c was last assigned with; column 0 keeps the ones it
\* was allocated with, which is x^0 * y^0.
ExponentsOf(c) ==
    IF c \in WrittenCols
        THEN LET w == CHOOSE m \in 1 .. Len(writes) :
                        /\ writes[m].col = c
                        /\ \A m2 \in (m + 1) .. Len(writes) : writes[m2].col # c
             IN  <<writes[w].ex, writes[w].ey>>
        ELSE <<0, 0>>

TotalDegree(c) == ExponentsOf(c)[1] + ExponentsOf(c)[2]

\* C3: in the returned matrix, for every level i in 0..degree-1 and every j in
\* 0..i+1, column (i+1)(i+2)/2 + j holds x^(i-j+1) * y^j; the total degree is
\* non-decreasing in the column index, and within one total degree the
\* exponent of x strictly decreases as the column index increases.
C3_ColumnLayout ==
    Returned =>
        /\ \A ii \in 0 .. (degree - 1) : \A jj \in 0 .. (ii + 1) :
              LET c == ((ii + 1) * (ii + 2)) \div 2 + jj
              IN  /\ c \in Columns
                  /\ ExponentsOf(c) = <<ii - jj + 1, jj>>
                  /\ \A n \in 1 .. N :
                        X[n][c] = Pow(x[n], ii - jj + 1) * Pow(y[n], jj)
        /\ \A c1, c2 \in Columns :
              c1 < c2 =>
                  /\ TotalDegree(c1) <= TotalDegree(c2)
                  /\ TotalDegree(c1) = TotalDegree(c2)
                        => ExponentsOf(c1)[1] > ExponentsOf(c2)[1]

\* Degree 2 on the point (2, 3): columns 1, x, y, x^2, xy, y^2.
C3_Witness ==
    /\ Returned
    /\ degree = 2
    /\ N = 1
    /\ x[1] = 2
    /\ y[1] = 3
    /\ X[1] = [c \in 0 .. 5 |-> <<1, 2, 3, 4, 6, 9>>[c + 1]]

Monomials(d) == {e \in (0 .. d) \X (0 .. d) : e[1] + e[2] <= d}

\* C9: the nested loop never assigns column 0 and never addresses a column
\* index >= p; no column is assigned twice; and on return every column in
\* 1..p-1 has been assigned exactly once, so that the columns are in one-to-one
\* correspondence with the monomials x^a * y^b, a + b <= degree.
C9_EachColumnOnce ==
    /\ pc # "IndexError"
    /\ \A w \in 1 .. Len(writes) :
          /\ writes[w].col >= 1
          /\ writes[w].col < ((degree + 1) * (degree + 2)) \div 2
          /\ \A w2 \in 1 .. Len(writes) :
                writes[w2].col = writes[w].col => w2 = w
    /\ Returned =>
          /\ WrittenCols = 1 .. (((degree + 1) * (degree + 2)) \div 2 - 1)
          /\ {ExponentsOf(c) : c \in Columns} = Monomials(degree)
          /\ \A c1, c2 \in Columns :
                ExponentsOf(c1) = ExponentsOf(c2) => c1 = c2

C9_Witness ==
    /\ Returned
    /\ degree = 3
    /\ Len(writes) = 9
    /\ WrittenCols = 1 .. 9
    /\ N = 2

-----------------------------------------------------------------------------
(* Properties of the sweep functions *)

\* C4: in every sweep function, after the m-th loop iteration each of the
\* four lists has length exactly m, and its element at (0-based) index m-1 is
\* the corresponding output of the estimator call made for the m-th
\* hyperparameter value (the estimator returns bias^2, variance, train MSE,
\* test MSE); once the loop is left for write_to_file all four lists are as
\* long as the hyperparameter sequence.
C4_ListsAlignedWithAxis ==
    /\ Len(calls) = k
    /\ Len(mses_train) = k
    /\ Len(mses_test) = k
    /\ Len(biases) = k
    /\ Len(variances) = k
    /\ \A m \in 1 .. k :
          /\ calls[m].value = Axis(sweep)[m]
          /\ mses_train[m] = calls[m].returned[3]
          /\ mses_test[m] = calls[m].returned[4]
          /\ biases[m] = calls[m].returned[1]
          /\ variances[m] = calls[m].returned[2]
    /\ spc \in {"header", "rows", "done"} => k = Len(Axis(sweep))

C4_Witness ==
    /\ sweep = "mlp_layer_size"
    /\ spc = "loop"
    /\ k = 2
    /\ calls[1].returned = <<0, 1, 0, 1>>
    /\ calls[2].returned = <<1, 1, 0, 0>>
    /\ calls[2].value = 20
    /\ biases = <<0, 1>>
    /\ mses_test = <<1, 0>>

\* The text of data rows 1..m as the claim describes them: the swept value,
\* then train MSE, test MSE, bias^2 and variance of the m-th estimator call.
RECURSIVE ExpectedRows(_)
ExpectedRows(m) ==
    IF m = 0 THEN ""
    ELSE ExpectedRows(m - 1)
            \o ToString(Axis(sweep)[m]) \o ","
            \o ToString(calls[m].returned[3]) \o ".0,"
            \o ToString(calls[m].returned[4]) \o ".0,"
            \o ToString(calls[m].returned[1]) \o ".0,"
            \o ToString(calls[m].returned[2]) \o ".0\n"

ExpectedTable ==
    Label(sweep) \o ",mse_train,mse_test,bias,variance\n"
        \o ExpectedRows(Len(Axis(sweep)))

\* C5: the table a completed sweep has written is the header row
\* '<param_name>,mse_train,mse_test,bias,variance' followed by exactly one
\* data row per swept value, in sweep order; row m holds the m-th value, then
\* the train MSE, test MSE, bias^2 and variance the estimator returned for it.
C5_TableContents ==
    spc = "done" =>
        /\ Len(calls) = Len(Axis(sweep))
        /\ fs[FileName(sweep)] = [exists |-> TRUE, text |-> ExpectedTable]

C5_Witness ==
    /\ sweep = "ols"
    /\ spc = "done"
    /\ calls[1].returned = <<0, 1, 1, 0>>
    /\ calls[2].returned = <<1, 0, 0, 0>>
    /\ fs["bias_variance_ols.csv"].text
          = "degree,mse_train,mse_test,bias,variance\n"
               \o "1,1.0,0.0,0.0,1.0\n" \o "2,0.0,0.0,1.0,0.0\n"

\* C6: a sweep that raises in dataset construction or in an estimator call
\* leaves every result file as it was on entry (not created, not truncated,
\* not written); the file is opened and written only after every sweep point
\* has been computed, no other file is touched, and a completed sweep has
\* written the header and all rows.
C6_AllOrNothing ==
    /\ spc \in {"begin", "loop", "raised"} => fs = fs0
    /\ fs # fs0 =>
          /\ Len(calls) = Len(Axis(sweep))
          /\ k = Len(Axis(sweep))
    /\ \A f \in FileNames : f # FileName(sweep) => fs[f] = fs0[f]
    /\ spc = "done" =>
          /\ fs[FileName(sweep)].exists
          /\ fs[FileName(sweep)].text = ExpectedTable

\* The second estimator call of the ensemble sweep raised; a table of an
\* earlier run is still in place.
C6_Witness ==
    /\ sweep = "ensamble"
    /\ spc = "raised"
    /\ k = 1
    /\ Len(calls) = 1
    /\ k < Len(Axis(sweep))
    /\ fs0["bias_variance_ensamble.csv"] = StaleFile
    /\ fs["bias_variance_ensamble.csv"] = StaleFile

C7_WitnessOLS ==
    /\ sweep = "ols"
    /\ Len(calls) = 2
    /\ calls[1].data # calls[2].data
    /\ calls[2].dataSeen.columns = 6

-----------------------------------------------------------------------------
(* Properties of bootstrap_bias_variance *)

\* sum over test points of (y_test[t] - P[t, 1])^2
RECURSIVE FirstColumnSSE(_)
FirstColumnSSE(t) ==
    IF t = 0 THEN 0
    ELSE (y_test[t] - P[t][1]) * (y_test[t] - P[t][1]) + FirstColumnSSE(t - 1)

\* C8: a run with B = 1 returns with a prediction matrix of a single column,
\* equal to the predictions of the regressor fitted on the one bootstrap
\* resample; the reported variance is exactly 0, and the reported bias^2 is
\* the mean over test points of (y_test[t] - P[t, 1])^2, which is also the
\* reported test MSE.
C8_SingleBootstrap ==
    (bpc = "done" /\ B = 1) =>
        /\ \A t \in 1 .. Len(y_test) :
              /\ DOMAIN P[t] = {1}
              /\ P[t][1] = model.test_pred[t]
        /\ DOMAIN P = DOMAIN y_test
        /\ Len(model.fitted_on) = Len(y_train)
        /\ \A n \in DOMAIN model.fitted_on :
              \E n2 \in DOMAIN y_train : model.fitted_on[n] = y_train[n2]
        /\ result.variance[1] = 0
        /\ result.variance[2] > 0
        /\ result.bias[2] > 0
        /\ result.bias[1] * Len(y_test)
              = FirstColumnSSE(Len(y_test)) * result.bias[2]
        /\ FracEq(result.bias, result.mse_test)

C8_Witness ==
    /\ bpc = "done"
    /\ B = 1
    /\ y_test = <<2, 0>>
    /\ P = <<(<<0>>), (<<1>>)>>
    /\ FracEq(result.bias, Frac(5, 2))
    /\ FracEq(result.mse_test, Frac(5, 2))

\* C10: for every prediction matrix and target vector the returned
\* aggregates satisfy test MSE = bias^2 + variance exactly (the variance of
\* a row being its population variance); bias^2 and variance are each
\* between 0 and the test MSE.
C10_Decomposition ==
    bpc = "done" =>
        /\ result.bias[2] > 0
        /\ result.variance[2] > 0
        /\ result.mse_test[2] > 0
        /\ FracEq(result.mse_test, FracAdd(result.bias, result.variance))
        /\ FracLe(Frac(0, 1), result.bias)
        /\ FracLe(Frac(0, 1), result.variance)
        /\ FracLe(result.bias, result.mse_test)
        /\ FracLe(result.variance, result.mse_test)

\* Two columns that disagree on both test points: bias^2 = 5/8,
\* variance = 5/8, test MSE = 5/4.
C10_Witness ==
    /\ bpc = "done"
    /\ B = 2
    /\ y_test = <<1, 2>>
    /\ P = <<(<<0, 1>>), (<<0, 2>>)>>
    /\ FracEq(result.bias, Frac(5, 8))
    /\ FracEq(result.variance, Frac(5, 8))
    /\ FracEq(result.mse_test, Frac(5, 4))

====
